---- MODULE Spec2Model ----
(***************************************************************************)
(* Skill synchronisation (bin/update-skills.ts and bin/add-remote-skill.ts, *)
(* embedded in skills/add-documentation/SKILL.md) and marketplace          *)
(* aggregation (bin/generate-modes-marketplace.ts) of kilo-marketplace.    *)
(*                                                                         *)
(* Spec          one run of update-skills: collectSkills, groupByRepo, and  *)
(*               updateFromRepo for each repository group.                 *)
(* ManifestSpec  a run of generate-modes-marketplace, and a second run on   *)
(*               the directory the first one left.                         *)
(* GroupSpec     groupByRepo applied to a sequence of skills.               *)
(* UrlSpec       parseGitHubUrl applied to a URL.                           *)
(* ResyncSpec    update-skills run twice against the same upstream content. *)
(* AddSpec       one run of add-remote-skill.                               *)
(***************************************************************************)
EXTENDS Integers, Sequences, FiniteSets, TLC

\* ------------------------------------------------------------------ bounds
\* Number of skill directories under skillsDir.
NumSkills == 2
\* Number of distinct upstream repository URLs the skills may name.
NumRepos == 2

Names == 1..NumSkills
Repos == 1..NumRepos

\* ------------------------------------------------------------- sync: data
\* A key that is missing from a YAML mapping reads as undefined.
Absent == "undefined"

\* JavaScript truthiness of a frontmatter value: undefined and "" are falsy.
Truthy(v) == v \notin {Absent, ""}

\* metadata.source with neither key set (or no metadata.source at all).
NoSource == [repository |-> 0, path |-> 0]

\* A source an upstream document may declare for itself; it names no
\* repository and no path of the local registry.
Bogus == [repository |-> NumRepos + 1, path |-> NumSkills + 1]

\* Frontmatter as matter() returns it: meta says whether the metadata
\* object exists; without it category and source read as undefined.
NoMetadata == [meta |-> FALSE, category |-> Absent, source |-> NoSource]

\* A missing SKILL.md.
NoDoc == [exists |-> FALSE, ok |-> FALSE, fm |-> NoMetadata, body |-> "none"]

\* A path that does not exist in the checked-out tree.
NoDir == [exists |-> FALSE, md |-> NoDoc, others |-> {}]

\* Files other than SKILL.md, as <<name, content>>: the local directory has a
\* local-only file and a file whose name upstream also has; upstream has that
\* name with its own content and a file the local directory lacks.
LocalOthers == {<<"notes.txt", "local">>, <<"ref.md", "local">>}
UpstreamOthers == {<<"ref.md", "upstream">>, <<"guide.md", "upstream">>}

\* The frontmatters an upstream SKILL.md may carry.
UpstreamFrontmatters ==
    {NoMetadata}
    \cup {[meta |-> TRUE, category |-> c, source |-> s] :
            c \in {Absent, "", "dev"}, s \in {NoSource, Bogus}}

\* What git checkout may have materialised at a skill's source.path: nothing,
\* a directory without SKILL.md, one whose SKILL.md has a frontmatter that
\* matter() cannot parse, or one with a well-formed SKILL.md.
UpstreamDirs ==
    {NoDir}
    \cup {[exists |-> TRUE, md |-> NoDoc, others |-> UpstreamOthers]}
    \cup {[exists |-> TRUE,
           md |-> [exists |-> TRUE, ok |-> FALSE, fm |-> NoMetadata, body |-> "upstream"],
           others |-> UpstreamOthers]}
    \cup {[exists |-> TRUE,
           md |-> [exists |-> TRUE, ok |-> TRUE, fm |-> f, body |-> "upstream"],
           others |-> UpstreamOthers] : f \in UpstreamFrontmatters}

\* A source with one of its two keys only.
HalfSources(n) == {[repository |-> 1, path |-> 0], [repository |-> 0, path |-> n]}

\* The frontmatters a local SKILL.md may carry before the run: any category,
\* and either no source or a source naming a repository and the skill's path;
\* or a source with one key only.
LocalFrontmatters(n) ==
    {[meta |-> TRUE, category |-> c, source |-> s] :
        c \in {Absent, "", "tools"},
        s \in {NoSource} \cup {[repository |-> r, path |-> n] : r \in Repos}}
    \cup {[meta |-> TRUE, category |-> Absent, source |-> s] : s \in HalfSources(n)}

\* A name skillsDir has no directory for.
NoLocalDir == [exists |-> FALSE, hidden |-> FALSE, md |-> NoDoc, others |-> {}]

\* What skillsDir may hold under a name before the run: nothing, a directory
\* with a well-formed SKILL.md, one without SKILL.md, one whose SKILL.md has
\* a frontmatter matter() cannot parse, or a directory whose name starts
\* with a dot.
LocalDirs(n) ==
    {NoLocalDir} \cup
    {[exists |-> TRUE, hidden |-> FALSE,
      md |-> [exists |-> TRUE, ok |-> TRUE, fm |-> f, body |-> "local"],
      others |-> LocalOthers] : f \in LocalFrontmatters(n)}
    \cup {[exists |-> TRUE, hidden |-> FALSE, md |-> NoDoc, others |-> LocalOthers]}
    \cup {[exists |-> TRUE, hidden |-> FALSE,
           md |-> [exists |-> TRUE, ok |-> FALSE, fm |-> NoMetadata, body |-> "local"],
           others |-> LocalOthers]}
    \cup {[exists |-> TRUE, hidden |-> TRUE,
           md |-> [exists |-> TRUE, ok |-> TRUE,
                   fm |-> [meta |-> TRUE, category |-> Absent,
                           source |-> [repository |-> 1, path |-> n]],
                   body |-> "local"],
           others |-> LocalOthers]}

\* The command lines of a run: no argument, or names of skills.
Filters == SUBSET Names

\* add-remote-skill before process.argv[2] is read and before parseGitHubUrl
\* is called.
NoUrl == [host |-> "none", segs |-> <<>>, slash |-> FALSE]
NoParse == [done |-> FALSE, ok |-> FALSE, skillPath |-> <<>>]

\* The loop locals of updateFromRepo before its first iteration.
NoCur == [name |-> 0, sourceDir |-> NoDir]

VARIABLES
    dirs,       \* skillsDir: skill directory name -> its content
    filter,     \* process.argv.slice(2), as a set of names
    skills,     \* main: the SkillInfo sequence collectSkills returned
    grouped,    \* main: the Map groupByRepo returned, in insertion order
    gi,         \* main: position of the for-of loop over grouped
    si,         \* updateFromRepo: position of the for-of loop over skills
    cur,        \* updateFromRepo: skill and sourceDir of the last iteration
    tempDirs,   \* /tmp: the skill-update-* directories that exist
    thrown,     \* the exception in flight or caught: "none", "scan" (thrown
                \* by collectSkills), "git", "parse" (thrown in the loop of
                \* updateFromRepo)
    warnLog,    \* console.warn of collectSkills, as <<skill, message>>
    okLog,      \* skills logged with a check mark
    errLog,     \* skills logged with a cross
    summary,    \* N of "Done. Updated N skill(s).", -1 when not printed
    exitCode,   \* -1 while running, else the process exit code
    pc,         \* control position of the update-skills run
    modesDir,   \* modes/: its entries in readdirSync order, with content
    items,      \* generate-modes-marketplace: the sorted modes
    mpc,        \* control position of the generate-modes-marketplace run
    run,        \* which run of generate-modes-marketplace this is: 1 or 2
    prevDoc,    \* the marketplace.yaml the run before this one left
    pass,       \* which run of update-skills on this registry: 1 or 2
    seen,       \* skill -> the upstream directory the first run found for it
    dirs1,      \* skillsDir as the first run left it
    skills1,    \* what collectSkills returned in the first run
    url,        \* add-remote-skill: process.argv[2]
    parsed,     \* add-remote-skill: what parseGitHubUrl(url) gave
    targetDir,  \* add-remote-skill: what skillsDir holds at targetDir
    tempDir,    \* add-remote-skill: whether the /tmp/skill-* directory exists
    addThrown,  \* add-remote-skill: the exception in flight, or "none"
    addExit,    \* add-remote-skill: -1 while running, else the exit code
    apc         \* control position of the add-remote-skill run

syncVars == <<dirs, filter, skills, grouped, gi, si, cur, tempDirs, thrown,
              warnLog, okLog, errLog, summary, exitCode, pc>>
manifestVars == <<modesDir, items, mpc, run, prevDoc>>
addVars == <<url, parsed, targetDir, tempDir, addThrown, addExit, apc>>
resyncVars == <<pass, seen, dirs1, skills1>>
vars == <<syncVars, manifestVars, addVars, resyncVars>>

\* -------------------------------------------------------- sync: functions
\* Line 193, !source?.repository || !source?.path.
noSource(fm) == fm.source.repository = 0 \/ fm.source.path = 0

\* collectSkills, lines 171-209: the directories in enumeration order, kept
\* when they pass the filter, have a SKILL.md and declare a full source;
\* warns are the warnings printed, threw says that matter() threw.
RECURSIVE collectFrom(_, _, _)
collectFrom(d, f, n) ==
    IF n > NumSkills THEN [skills |-> <<>>, warns |-> {}, threw |-> FALSE]
    ELSE LET rest == collectFrom(d, f, n + 1)
             fm == d[n].md.fm
         IN IF ~d[n].exists \/ d[n].hidden THEN rest
            ELSE IF f # {} /\ n \notin f THEN rest
            ELSE IF ~d[n].md.exists
            THEN [rest EXCEPT !.warns = @ \cup {<<n, "no SKILL.md found">>}]
            ELSE IF ~d[n].md.ok
            THEN [skills |-> <<>>, warns |-> {}, threw |-> TRUE]
            ELSE IF noSource(fm)
            THEN [rest EXCEPT !.warns = @ \cup
                    IF n \in f THEN {<<n, "no metadata.source">>} ELSE {}]
            ELSE [rest EXCEPT !.skills =
                    IF rest.threw THEN <<>>
                    ELSE <<[name |-> n,
                            source |-> [repository |-> fm.source.repository,
                                        path |-> fm.source.path],
                            frontmatter |-> fm]>> \o @]

\* collectSkills without the test of the filter.
collectSkills_unfiltered(d, f) == collectFrom(d, {}, 1)
\* collectSkills, lines 171-209.
collectSkills(d, f) == collectFrom(d, f, 1)

\* groupByRepo without the lookup of the repository in the Map.
groupByRepo_noLookup(sk) ==
    [i \in 1..Len(sk) |-> [repo |-> sk[i].source.repository, members |-> <<sk[i]>>]]
\* groupByRepo, lines 214-224: a Map keeps its keys in insertion order.
RECURSIVE groupByRepo(_)
groupByRepo(sk) ==
    IF sk = <<>> THEN <<>>
    ELSE LET prev == groupByRepo(SubSeq(sk, 1, Len(sk) - 1))
             skill == sk[Len(sk)]
             repo == skill.source.repository
             at == {i \in 1..Len(prev) : prev[i].repo = repo}
         IN IF at = {}
            THEN Append(prev, [repo |-> repo, members |-> <<skill>>])
            ELSE LET i == CHOOSE i \in at : TRUE
                 IN [prev EXCEPT ![i].members = Append(@, skill)]

\* skipSkill removing the skill directory.
skipSkill_prune(dir) == [dir EXCEPT !.exists = FALSE, !.md = NoDoc, !.others = {}]
\* skipSkill with the existence checks after the removal loop of lines 283-293.
skipSkill_afterRemoval(dir) == [dir EXCEPT !.md = NoDoc, !.others = {}]
\* Lines 267-272 and 276-281: what a skipped iteration does to skill.dir;
\* both checks come before line 284 and nothing is written.
skipSkill(dir) == dir

\* afterSkip stepping over the member after the skipped one.
afterSkip_skipNext(i, members) == i + 2
\* afterSkip with break in place of continue.
afterSkip_break(i, members) == Len(members) + 1
\* Lines 271 and 280, continue: the loop goes on with the next member.
afterSkip(i, members) == i + 1

\* removeEntries without the removal loop.
removeEntries_keep(dir) == dir
\* Lines 283-293: every entry of the skill directory is removed.
removeEntries(dir) == [dir EXCEPT !.md = NoDoc, !.others = {}]

\* Line 296, fs.cpSync(sourceDir, skill.dir, {recursive: true}): the files of
\* sourceDir are written over whatever the directory holds.
cpSync(src, dir) ==
    [dir EXCEPT !.exists = TRUE,
                !.md = IF src.md.exists THEN src.md ELSE @,
                !.others = src.others \cup
                           {e \in @ : \A u \in src.others : u[1] # e[1]}]

\* mergeCategory without the carry-forward of lines 308-315.
mergeCategory_upstreamOnly(newCategory, localCategory) == newCategory
\* mergeCategory without the test of the upstream value at line 310.
mergeCategory_localFirst(newCategory, localCategory) ==
    IF Truthy(localCategory) THEN localCategory ELSE newCategory
\* Lines 303-315: the category of the new frontmatter.
mergeCategory(newCategory, localCategory) ==
    IF ~Truthy(newCategory) /\ Truthy(localCategory)
    THEN localCategory
    ELSE newCategory

\* injectSource without the assignment of lines 318-321.
injectSource_none(newSource, skillSource) == newSource
\* injectSource made only when upstream declares no source.
injectSource_keepUpstream(newSource, skillSource) ==
    IF newSource # NoSource THEN newSource ELSE skillSource
\* Lines 317-321: the source of the new frontmatter.
injectSource(newSource, skillSource) ==
    [repository |-> skillSource.repository, path |-> skillSource.path]

\* Lines 298-324: the frontmatter written back to the copied SKILL.md.
reconcile(newFrontmatter, skill) ==
    [meta |-> TRUE,
     category |-> mergeCategory(newFrontmatter.category, skill.frontmatter.category),
     source |-> injectSource(newFrontmatter.source, skill.source)]

\* rmTempDir after the try block instead of in finally.
rmTempDir_onReturnOnly(temps, t) == IF thrown # "none" THEN temps ELSE temps \ {t}
\* Line 329, fs.rmSync(tempDir, {recursive: true, force: true}) in finally.
rmTempDir(temps, t) == temps \ {t}

\* ---------------------------------------------------------- sync: actions
Init ==
    /\ dirs \in [Names -> UNION {LocalDirs(n) : n \in Names}]
    /\ \A n \in Names : dirs[n] \in LocalDirs(n)
    /\ filter \in Filters
    /\ skills = <<>>
    /\ grouped = <<>>
    /\ gi = 0
    /\ si = 0
    /\ cur = NoCur
    /\ tempDirs = {}
    /\ thrown = "none"
    /\ warnLog = {}
    /\ okLog = {}
    /\ errLog = {}
    /\ summary = -1
    /\ exitCode = -1
    /\ pc = "main"
    /\ modesDir = <<>>
    /\ items = <<>>
    /\ mpc = "idle"
    /\ run = 0
    /\ prevDoc = <<>>
    /\ url = NoUrl
    /\ parsed = NoParse
    /\ targetDir = NoLocalDir
    /\ tempDir = FALSE
    /\ addThrown = "none"
    /\ addExit = -1
    /\ apc = "idle"
    /\ pass = 1
    /\ seen = <<>>
    /\ dirs1 = <<>>
    /\ skills1 = <<>>

\* main, lines 344-351: collect and group; return when nothing was collected.
\* An exception of collectSkills rejects main and reaches main().catch (lines
\* 364-367).
Collect ==
    /\ pc = "main"
    /\ LET r == collectSkills(dirs, filter)
       IN /\ skills' = r.skills
          /\ warnLog' = r.warns
          /\ IF r.threw
             THEN /\ thrown' = "scan"
                  /\ grouped' = <<>>
                  /\ gi' = 0
                  /\ exitCode' = 1
                  /\ pc' = "exit"
             ELSE IF r.skills = <<>>
             THEN /\ thrown' = thrown
                  /\ grouped' = <<>>
                  /\ gi' = 0
                  /\ exitCode' = 0
                  /\ pc' = "exit"
             ELSE /\ thrown' = thrown
                  /\ grouped' = groupByRepo(r.skills)
                  /\ gi' = 1
                  /\ exitCode' = exitCode
                  /\ pc' = "loop"
    /\ UNCHANGED <<dirs, filter, si, cur, tempDirs, okLog, errLog, summary,
                   manifestVars, addVars, resyncVars>>

\* main, line 361: the loop over grouped is over.
Done ==
    /\ pc = "loop"
    /\ gi > Len(grouped)
    /\ summary' = Len(skills)
    /\ exitCode' = 0
    /\ pc' = "exit"
    /\ UNCHANGED <<dirs, filter, skills, grouped, gi, si, cur, tempDirs, thrown,
                   okLog, errLog,
                   warnLog, manifestVars, addVars, resyncVars>>

\* updateFromRepo, line 232: the workspace of the next group is created.
Mkdtemp ==
    /\ pc = "loop"
    /\ gi <= Len(grouped)
    /\ tempDirs' = tempDirs \cup {gi}
    /\ pc' = "fetch"
    /\ UNCHANGED <<dirs, filter, skills, grouped, gi, si, cur, thrown, okLog,
                   errLog, summary, exitCode,
                   warnLog, manifestVars, addVars, resyncVars>>

\* updateFromRepo, lines 236-261: every git step succeeded.
GitFetch ==
    /\ pc = "fetch"
    /\ si' = 1
    /\ cur' = NoCur
    /\ pc' = "skills"
    /\ UNCHANGED <<dirs, filter, skills, grouped, gi, tempDirs, thrown, okLog,
                   errLog, summary, exitCode,
                   warnLog, manifestVars, addVars, resyncVars>>

GitSteps == {"init", "remote add", "config", "fetch", "checkout"}

\* updateFromRepo, lines 236-261: execSync throws at one of the git steps.
GitFail ==
    /\ pc = "fetch"
    /\ \E step \in GitSteps : thrown' = "git"
    /\ pc' = "finally"
    /\ UNCHANGED <<dirs, filter, skills, grouped, gi, si, cur, tempDirs, okLog,
                   errLog, summary, exitCode,
                   warnLog, manifestVars, addVars, resyncVars>>

\* updateFromRepo, lines 264-327: one iteration of the loop over the group's
\* skills, with sourceDir the directory found at the skill's source.path.
updateSkillFrom(sourceDir) ==
    LET skill == grouped[gi].members[si]
        copied == cpSync(sourceDir, removeEntries(dirs[skill.name]))
    IN /\ cur' = [name |-> skill.name, sourceDir |-> sourceDir]
       /\ IF ~sourceDir.exists \/ ~sourceDir.md.exists
          THEN \* lines 267-281: logged and skipped
               /\ errLog' = errLog \cup {skill.name}
               /\ dirs' = [dirs EXCEPT ![skill.name] = skipSkill(@)]
               /\ si' = afterSkip(si, grouped[gi].members)
               /\ UNCHANGED <<okLog, thrown, pc>>
          ELSE IF ~copied.md.ok
          THEN \* line 301: matter() throws on the copied SKILL.md
               /\ dirs' = [dirs EXCEPT ![skill.name] = copied]
               /\ thrown' = "parse"
               /\ pc' = "finally"
               /\ UNCHANGED <<errLog, okLog, si>>
          ELSE \* lines 303-326
               /\ dirs' = [dirs EXCEPT ![skill.name] =
                             [copied EXCEPT !.md.fm = reconcile(copied.md.fm, skill)]]
               /\ okLog' = okLog \cup {skill.name}
               /\ si' = si + 1
               /\ UNCHANGED <<errLog, thrown, pc>>
       /\ UNCHANGED <<filter, skills, grouped, gi, tempDirs, summary, exitCode,
                      warnLog, manifestVars, addVars>>

\* One iteration of the loop, on whatever git checkout left at the path.
UpdateSkill ==
    /\ pc = "skills"
    /\ si <= Len(grouped[gi].members)
    /\ \E sourceDir \in UpstreamDirs : updateSkillFrom(sourceDir)
    /\ UNCHANGED resyncVars

\* updateFromRepo, line 327: the loop over the group's skills is over.
EndSkills ==
    /\ pc = "skills"
    /\ si > Len(grouped[gi].members)
    /\ pc' = "finally"
    /\ UNCHANGED <<dirs, filter, skills, grouped, gi, si, cur, tempDirs, thrown,
                   okLog, errLog, summary, exitCode,
                   warnLog, manifestVars, addVars, resyncVars>>

\* updateFromRepo, lines 328-330, and its return to main: the workspace is
\* removed; an exception in flight leaves main and reaches main().catch
\* (lines 364-367), otherwise the loop over grouped goes on.
Finally ==
    /\ pc = "finally"
    /\ tempDirs' = rmTempDir(tempDirs, gi)
    /\ cur' = NoCur
    /\ IF thrown # "none"
       THEN /\ exitCode' = 1
            /\ pc' = "exit"
            /\ gi' = gi
       ELSE /\ exitCode' = exitCode
            /\ pc' = "loop"
            /\ gi' = gi + 1
    /\ UNCHANGED <<dirs, filter, skills, grouped, si, thrown, okLog, errLog,
                   summary,
                   warnLog, manifestVars, addVars, resyncVars>>

\* The process gets SIGINT or SIGTERM while it runs. The script installs no
\* handler, so the process ends there: no finally block and no catch runs.
Interrupt ==
    /\ pc \in {"main", "loop", "fetch", "skills", "finally"}
    /\ pc' = "killed"
    /\ exitCode' = 130
    /\ UNCHANGED <<dirs, filter, skills, grouped, gi, si, cur, tempDirs, thrown,
                   warnLog, okLog, errLog, summary, manifestVars, addVars, resyncVars>>

Next ==
    \/ Collect
    \/ Done
    \/ Mkdtemp
    \/ GitFetch
    \/ GitFail
    \/ UpdateSkill
    \/ EndSkills
    \/ Finally
    \/ Interrupt

Spec == Init /\ [][Next]_vars

\* ----------------------------------------------------------- sync: claims
\* The SkillInfo collectSkills made for directory n.
SkillInfoOf(n) == skills[CHOOSE i \in 1..Len(skills) : skills[i].name = n]

Selected == {skills[i].name : i \in 1..Len(skills)}

\* The last iteration of the loop over the group's skills found no directory
\* at the skill's source.path, or a directory without SKILL.md.
CurMissingUpstream ==
    /\ cur.name # 0
    /\ ~cur.sourceDir.exists \/ ~cur.sourceDir.md.exists

\* The last iteration reconciled its skill.
CurReconciled == cur.name # 0 /\ cur.name \in okLog

\* C1: when the git steps of one repository group fail, every other group of
\* the run, those after the failing one included, has had each of its member
\* skills reached by the reconciliation loop when the run ends.
C1_OtherGroupsProcessed ==
    (pc = "exit" /\ thrown = "git") =>
        \A g \in 1..Len(grouped) : g # gi =>
            \A i \in 1..Len(grouped[g].members) :
                grouped[g].members[i].name \in okLog \cup errLog

\* C2: no workspace exists once updateFromRepo has exited, whether it
\* returned or threw, and none exists when the run has ended.
C2_WorkspaceRemoved == pc \in {"loop", "exit"} => tempDirs = {}

\* A run that ended by a failure while reconciling the second member of a
\* group, after the workspace had been created and a member reconciled.
C2_Witness == pc = "exit" /\ thrown = "parse" /\ okLog # {} /\ tempDirs = {}

\* C3: a member skill whose upstream directory or upstream SKILL.md is
\* missing is logged as an error for that skill and the loop goes on; a run
\* whose only failures are such skips ends with every other selected skill,
\* of the same group and of later groups, reconciled.
C3_SkipIsolated ==
    /\ CurMissingUpstream =>
         /\ cur.name \in errLog /\ cur.name \notin okLog
         /\ thrown = "none" /\ pc \in {"skills", "finally", "killed"}
    /\ (cur.name # 0 /\ cur.name \in errLog) => CurMissingUpstream
    /\ (pc = "exit" /\ thrown = "none") =>
         \A n \in Selected : n \notin errLog =>
            /\ n \in okLog
            /\ dirs[n].md.body = "upstream"
            /\ dirs[n].md.fm.source = SkillInfoOf(n).source

\* The first skill was skipped and the second one was reconciled afterwards.
C3_Witness == pc = "exit" /\ thrown = "none" /\ errLog = {1} /\ 2 \in okLog

\* C4: a run in which a selected skill was not reconciled ends with a
\* non-zero exit code and does not report every selected skill as updated.
C4_FailureSignalled ==
    (pc = "exit" /\ \E n \in Selected : n \notin okLog) =>
        exitCode # 0 /\ summary # Len(skills)

\* C5: the source persisted for a reconciled skill is the repository and
\* path collectSkills read for it, whatever source upstream declares.
C5_SourceReinjected ==
    \A n \in Selected : n \in okLog =>
        dirs[n].md.fm.source = SkillInfoOf(n).source

\* A skill was reconciled from an upstream document that declares a source
\* of its own.
C5_Witness == CurReconciled /\ cur.sourceDir.md.fm.source = Bogus

\* C6 as stated: when upstream omits metadata.category, the persisted
\* category equals the category the local skill held when it was scanned.
C6_Original ==
    (CurReconciled /\ cur.sourceDir.md.fm.category = Absent) =>
        dirs[cur.name].md.fm.category = SkillInfoOf(cur.name).frontmatter.category

\* C6, amended: when upstream omits metadata.category, the persisted
\* category is the scanned local category if that is non-empty; a local
\* category that is absent or empty is not carried forward, and the
\* persisted metadata has no category.
C6_CategoryCarried ==
    (CurReconciled /\ cur.sourceDir.md.fm.category = Absent) =>
        dirs[cur.name].md.fm.category =
            IF Truthy(SkillInfoOf(cur.name).frontmatter.category)
            THEN SkillInfoOf(cur.name).frontmatter.category
            ELSE Absent

\* A skill with category "tools" was reconciled from an upstream document
\* that has no metadata object.
C6_Witness ==
    /\ CurReconciled
    /\ ~cur.sourceDir.md.fm.meta
    /\ SkillInfoOf(cur.name).frontmatter.category = "tools"
    /\ dirs[cur.name].md.fm.category = "tools"

\* C7 as stated: when upstream declares metadata.category, the persisted
\* category is upstream's value, an empty one included.
C7_Original ==
    (CurReconciled /\ cur.sourceDir.md.fm.category # Absent) =>
        dirs[cur.name].md.fm.category = cur.sourceDir.md.fm.category

\* C7, amended: when upstream declares a non-empty metadata.category, the
\* persisted category is upstream's value whatever the local value is; an
\* empty upstream value is treated as an omitted one, so a non-empty local
\* category replaces it.
C7_UpstreamCategoryKept ==
    /\ (CurReconciled /\ Truthy(cur.sourceDir.md.fm.category)) =>
         dirs[cur.name].md.fm.category = cur.sourceDir.md.fm.category
    /\ (CurReconciled /\ cur.sourceDir.md.fm.category = "") =>
         dirs[cur.name].md.fm.category =
            IF Truthy(SkillInfoOf(cur.name).frontmatter.category)
            THEN SkillInfoOf(cur.name).frontmatter.category
            ELSE ""

\* A skill with category "tools" was reconciled from an upstream document
\* that declares category "dev".
C7_Witness ==
    /\ CurReconciled
    /\ cur.sourceDir.md.fm.category = "dev"
    /\ SkillInfoOf(cur.name).frontmatter.category = "tools"

Eligible(n) ==
    /\ dirs[n].exists
    /\ ~dirs[n].hidden
    /\ filter = {} \/ n \in filter
    /\ dirs[n].md.exists
    /\ dirs[n].md.ok
    /\ ~noSource(dirs[n].md.fm)

\* collectSkills has returned and no skill directory was written since.
Scanned ==
    \/ pc = "loop" /\ gi = 1
    \/ pc = "exit" /\ thrown = "none" /\ skills = <<>>

\* C15: collectSkills returns, in enumeration order, exactly the non-hidden
\* directories that pass the filter, have a SKILL.md and declare a source,
\* each with the source its SKILL.md declares; it warns for every directory
\* passing the filter that has no SKILL.md, warns for a directory without
\* source only when the filter names it, and a missing SKILL.md never makes
\* it throw.
C15_CollectExact ==
    /\ Scanned =>
         /\ Selected = {n \in Names : Eligible(n)}
         /\ \A i \in 1..(Len(skills) - 1) : skills[i].name < skills[i + 1].name
         /\ \A i \in 1..Len(skills) :
              skills[i].source = dirs[skills[i].name].md.fm.source
         /\ warnLog =
              {<<n, "no SKILL.md found">> : n \in
                  {m \in Names : /\ dirs[m].exists
                                 /\ ~dirs[m].hidden
                                 /\ filter = {} \/ m \in filter
                                 /\ ~dirs[m].md.exists}}
              \cup
              {<<n, "no metadata.source">> : n \in
                  {m \in Names : /\ ~dirs[m].hidden
                                 /\ m \in filter
                                 /\ dirs[m].md.exists
                                 /\ noSource(dirs[m].md.fm)}}
    /\ thrown = "scan" =>
         \E n \in Names : ~dirs[n].hidden /\ dirs[n].md.exists /\ ~dirs[n].md.ok

\* A filtered scan returned a skill, left out a directory without SKILL.md
\* with a warning, and the directory after it was still scanned.
C15_Witness ==
    /\ Scanned
    /\ filter = Names
    /\ <<1, "no SKILL.md found">> \in warnLog
    /\ NumSkills \in Selected

\* C16: when reading, parsing or writing fails while one skill of a group is
\* reconciled, every other skill of that group has been reconciled, or
\* skipped for a missing upstream, when the run ends.
C16_FailureIsolated ==
    (pc = "exit" /\ thrown = "parse") =>
        \A i \in 1..Len(grouped[gi].members) :
            i # si => grouped[gi].members[i].name \in okLog \cup errLog

\* C17: a local SKILL.md that cannot be parsed does not end the scan, and
\* when the run ends every other directory that had to be collected was
\* collected.
C17_UnparsableSkipped ==
    /\ thrown # "scan"
    /\ pc = "exit" => \A n \in Names : Eligible(n) => n \in Selected

\* C19: when the process is interrupted, no workspace is left.
C19_InterruptCleansUp == pc = "killed" => tempDirs = {}

\* Directory n was scanned and its SKILL.md declares exactly one of
\* repository and path.
HalfSpecified(n) ==
    /\ ~dirs[n].hidden
    /\ filter = {} \/ n \in filter
    /\ dirs[n].md.exists
    /\ dirs[n].md.ok
    /\ (dirs[n].md.fm.source.repository = 0) # (dirs[n].md.fm.source.path = 0)

\* C20: a scan that met a skill with a half-specified source has reported
\* it, with or without a filter, and not with the message of a skill that
\* has no source.
C20_HalfSourceReported ==
    (pc \in {"loop", "exit"} /\ thrown # "scan") =>
        \A n \in Names : HalfSpecified(n) =>
            \E w \in warnLog : w[1] = n /\ w[2] # "no metadata.source"

\* C21: no step of a sync run, failing or not, creates or deletes a skill
\* directory, and no step changes the directory of a skill that was not
\* selected.
C21_DirectorySetKept ==
    [][/\ {n \in Names : dirs'[n].exists} = {n \in Names : dirs[n].exists}
       /\ \A n \in Names :
            n \notin {skills'[i].name : i \in 1..Len(skills')} => dirs'[n] = dirs[n]]_vars

\* A run ended by a failure after it wrote into the directory of a skill,
\* next to a name that has no directory.
C21_Witness ==
    /\ pc = "exit"
    /\ thrown = "parse"
    /\ \E n \in Names : ~dirs[n].exists
    /\ \E n \in Names : dirs[n].exists /\ dirs[n].md.body = "upstream"

\* C22: while the loop of a group runs, the members before the loop position
\* are exactly the ones that were reconciled or skipped, in the order
\* collectSkills found them; no member is touched before the group's fetch
\* has ended, and the loop position moves by one member or starts at the
\* first.
C22_OneAfterAnother ==
    [][/\ pc' = "skills" =>
            \A i \in 1..Len(grouped'[gi'].members) :
                /\ (grouped'[gi'].members[i].name \in okLog' \cup errLog') <=> i < si'
                /\ i > 1 => grouped'[gi'].members[i - 1].name < grouped'[gi'].members[i].name
       /\ pc' = "fetch" =>
            \A i \in 1..Len(grouped'[gi'].members) :
                /\ grouped'[gi'].members[i].name \notin okLog' \cup errLog'
                /\ dirs'[grouped'[gi'].members[i].name] = dirs[grouped'[gi'].members[i].name]
       /\ si' # si => si' = si + 1 \/ (pc = "fetch" /\ si' = 1)
       /\ dirs' # dirs =>
            /\ pc = "skills"
            /\ \A n \in Names : dirs'[n] # dirs[n] => n = grouped[gi].members[si].name]_vars

\* The first member of a group of two was skipped and the loop is at the
\* second.
C22_Witness ==
    /\ pc = "skills"
    /\ si = 2
    /\ Len(grouped[gi].members) = 2
    /\ grouped[gi].members[1].name \in errLog

\* C23: the directory of a skill that was skipped for a missing upstream
\* path or a missing upstream SKILL.md is left as it was by the step that
\* skips it, and from the creation of a group's workspace to the end of a
\* failed fetch no skill directory changes.
C23_SkippedUntouched ==
    [][/\ (pc = "skills" /\ (~cur'.sourceDir.exists \/ ~cur'.sourceDir.md.exists))
            => dirs' = dirs
       /\ (pc \in {"loop", "fetch"} \/ thrown = "git") => dirs' = dirs]_vars

\* A skill was skipped and its directory holds its local files and its local
\* SKILL.md.
C23_Witness ==
    /\ CurMissingUpstream
    /\ cur.name \in errLog
    /\ dirs[cur.name].others = LocalOthers
    /\ dirs[cur.name].md.body = "local"

\* ---------------------------------------------------------- manifest: data
\* Number of mode files in modes/.
NumModes == 2
\* Longest id of a mode, in UTF-16 code units.
MaxIdLen == 2

\* The code units ids are made of: "B" and "a", an upper-case letter that is
\* before the lower-case one by code unit and after it by collation.
Chars == {66, 97}

Ids == UNION {[1..n -> Chars] : n \in 1..MaxIdLen}

\* The file of mode k, and the aggregate document.
ModeFile(k) == [stem |-> k, ext |-> "yaml"]
MarketplaceFile == [stem |-> 0, ext |-> "yaml"]

\* A directory entry: its file name and its content, a sequence of modes (a
\* mode file holds one, marketplace.yaml holds the items written last). The
\* mode files are named after their place in the enumeration. parses says
\* whether yaml.parse accepts the file, whole whether the file was written
\* to its end, hasId whether the mode has an id key.
ModeEntry(k, i) ==
    [file |-> ModeFile(k), parses |-> TRUE, whole |-> TRUE,
     content |-> <<[hasId |-> TRUE, id |-> i, name |-> k]>>]
OldMarketplace ==
    [file |-> MarketplaceFile, parses |-> TRUE, whole |-> TRUE, content |-> <<>>]

\* A mode file that is not valid YAML, and one whose mapping has no id.
BadYamlEntry(k) ==
    [file |-> ModeFile(k), parses |-> FALSE, whole |-> TRUE, content |-> <<>>]
NoIdEntry(k) ==
    [file |-> ModeFile(k), parses |-> TRUE, whole |-> TRUE,
     content |-> <<[hasId |-> FALSE, id |-> <<>>, name |-> k]>>]

\* The mode files directory entry k may be.
ModeEntries(k) ==
    {ModeEntry(k, i) : i \in Ids} \cup {BadYamlEntry(k), NoIdEntry(k)}

\* The code units of "undefined", what localeCompare compares with when its
\* argument is undefined.
UndefinedText == <<117, 110, 100, 101, 102, 105, 110, 101, 100>>

\* seq with e put at position p.
InsertAt(seq, p, e) == SubSeq(seq, 1, p - 1) \o <<e>> \o SubSeq(seq, p, Len(seq))

\* ----------------------------------------------------- manifest: functions
\* isModeFile without the exclusion of marketplace.yaml.
isModeFile_any(file) == file.ext = "yaml"

\* Line 19: file.endsWith(".yaml") && file !== "marketplace.yaml".
isModeFile(file) == file.ext = "yaml" /\ file # MarketplaceFile

\* Lines 21-22, yaml.parse(content): the mapping of a mode file; the document
\* of marketplace.yaml is a mapping with the one key items, so it has no id.
parseMode(e) ==
    IF e.file = MarketplaceFile
    THEN [hasId |-> FALSE, id |-> <<>>, name |-> 0]
    ELSE e.content[1]

\* Lines 17-25: filter the entries and parse each remaining file; threw says
\* that yaml.parse threw on one of them.
RECURSIVE readModes(_)
readModes(entries) ==
    IF entries = <<>> THEN [threw |-> FALSE, modes |-> <<>>]
    ELSE LET e == Head(entries)
             rest == readModes(Tail(entries))
         IN IF ~isModeFile(e.file) THEN rest
            ELSE IF ~e.parses THEN [threw |-> TRUE, modes |-> <<>>]
            ELSE [threw |-> rest.threw,
                  modes |-> IF rest.threw THEN <<>> ELSE <<parseMode(e)>> \o rest.modes]

\* Comparison of two sequences of numbers, element by element, a proper
\* prefix first: -1, 0 or 1.
RECURSIVE compareSeq(_, _)
compareSeq(x, y) ==
    IF x = <<>> /\ y = <<>> THEN 0
    ELSE IF x = <<>> THEN -1
    ELSE IF y = <<>> THEN 1
    ELSE IF Head(x) < Head(y) THEN -1
    ELSE IF Head(x) > Head(y) THEN 1
    ELSE compareSeq(Tail(x), Tail(y))

\* The letter of a code unit (its upper case form) and whether it is the
\* lower case form.
letter(c) == IF c >= 97 THEN c - 32 ELSE c
caseRank(c) == IF c >= 97 THEN 0 ELSE 1

\* Line 26, a.id.localeCompare(b.id): the collation of the default locale
\* compares the letters first and, when all letters agree, lets the first
\* difference of case decide, lower case first.
localeCompare(x, y) ==
    LET primary == compareSeq([i \in 1..Len(x) |-> letter(x[i])],
                              [i \in 1..Len(y) |-> letter(y[i])])
    IN IF primary # 0 THEN primary
       ELSE compareSeq([i \in 1..Len(x) |-> caseRank(x[i])],
                       [i \in 1..Len(y) |-> caseRank(y[i])])

\* What localeCompare sees of the id of a mode handed to it as its argument.
idText(m) == IF m.hasId THEN m.id ELSE UndefinedText

\* sortById without the call of sort.
sortById_unsorted(ms) == ms
\* Line 26, Array.prototype.sort with the comparator: a stable sort, built
\* by inserting each element after the last one that does not follow it.
RECURSIVE sortById(_)
sortById(ms) ==
    IF ms = <<>> THEN <<>>
    ELSE LET init == sortById(SubSeq(ms, 1, Len(ms) - 1))
             m == ms[Len(ms)]
             before == {i \in 1..Len(init) : localeCompare(idText(init[i]), idText(m)) <= 0}
             k == IF before = {} THEN 0
                  ELSE CHOOSE i \in before : \A j \in before : j <= i
         IN SubSeq(init, 1, k) \o <<m>> \o SubSeq(init, k + 1, Len(init))

\* Line 31, fs.writeFileSync(marketplace.yaml, output), its first half: the
\* file is opened with flag "w", which creates it or truncates it.
openMarketplace(entries) ==
    IF \E i \in 1..Len(entries) : entries[i].file = MarketplaceFile
    THEN [i \in 1..Len(entries) |->
            IF entries[i].file = MarketplaceFile
            THEN [entries[i] EXCEPT !.content = <<>>, !.whole = FALSE]
            ELSE entries[i]]
    ELSE Append(entries, [file |-> MarketplaceFile, parses |-> TRUE,
                          whole |-> FALSE, content |-> <<>>])

\* Line 31, fs.writeFileSync(marketplace.yaml, output), to its end: the file
\* is replaced where the directory has it, and created otherwise.
writeMarketplace(entries, out) ==
    IF \E i \in 1..Len(entries) : entries[i].file = MarketplaceFile
    THEN [i \in 1..Len(entries) |->
            IF entries[i].file = MarketplaceFile
            THEN [entries[i] EXCEPT !.content = out, !.whole = TRUE]
            ELSE entries[i]]
    ELSE Append(entries, [file |-> MarketplaceFile, parses |-> TRUE,
                          whole |-> TRUE, content |-> out])

\* ------------------------------------------------------- manifest: actions
ManifestInit ==
    /\ \E pick \in [1..NumModes -> UNION {ModeEntries(k) : k \in 1..NumModes}] :
         /\ \A k \in 1..NumModes : pick[k] \in ModeEntries(k)
         /\ \/ modesDir = pick
            \/ \E p \in 1..(NumModes + 1) :
                 modesDir = InsertAt(pick, p, OldMarketplace)
    /\ items = <<>>
    /\ mpc = "read"
    /\ run = 1
    /\ prevDoc = <<>>
    /\ dirs = [n \in Names |-> NoDir]
    /\ filter = {}
    /\ skills = <<>>
    /\ grouped = <<>>
    /\ gi = 0
    /\ si = 0
    /\ cur = NoCur
    /\ tempDirs = {}
    /\ thrown = "none"
    /\ warnLog = {}
    /\ okLog = {}
    /\ errLog = {}
    /\ summary = -1
    /\ exitCode = -1
    /\ pc = "idle"
    /\ url = NoUrl
    /\ parsed = NoParse
    /\ targetDir = NoLocalDir
    /\ tempDir = FALSE
    /\ addThrown = "none"
    /\ addExit = -1
    /\ apc = "idle"
    /\ pass = 1
    /\ seen = <<>>
    /\ dirs1 = <<>>
    /\ skills1 = <<>>

\* Lines 17-26: items. An uncaught exception ends the run: yaml.parse throws
\* on a file that is not YAML, and the comparator throws when the mode it is
\* handed as a has no id; which of two modes a call gets as a is up to the
\* engine's sort, so with a mode without id among several either may happen.
ReadAndSort ==
    /\ mpc = "read"
    /\ LET r == readModes(modesDir)
           noId == \E i \in 1..Len(r.modes) : ~r.modes[i].hasId
       IN \/ /\ ~r.threw
             /\ items' = sortById(r.modes)
             /\ mpc' = "write"
          \/ /\ r.threw \/ (noId /\ Len(r.modes) >= 2)
             /\ items' = <<>>
             /\ mpc' = "crashed"
    /\ UNCHANGED <<modesDir, run, prevDoc, syncVars, addVars, resyncVars>>

\* Line 31, writeFileSync: marketplace.yaml is opened for writing.
OpenManifest ==
    /\ mpc = "write"
    /\ modesDir' = openMarketplace(modesDir)
    /\ mpc' = "writing"
    /\ UNCHANGED <<items, run, prevDoc, syncVars, addVars, resyncVars>>

\* Lines 28-33: the document is written and the run ends.
WriteManifest ==
    /\ mpc = "writing"
    /\ modesDir' = writeMarketplace(modesDir, items)
    /\ mpc' = "done"
    /\ UNCHANGED <<items, run, prevDoc, syncVars, addVars, resyncVars>>

\* The process is killed, or the machine stops, in the middle of a run.
ManifestKill ==
    /\ mpc \in {"read", "write", "writing"}
    /\ mpc' = "killed"
    /\ UNCHANGED <<modesDir, items, run, prevDoc, syncVars, addVars, resyncVars>>

\* The script is run once more on the directory the first run left.
RunAgain ==
    /\ mpc = "done"
    /\ run = 1
    /\ run' = 2
    /\ prevDoc' = modesDir[CHOOSE i \in 1..Len(modesDir) :
                              modesDir[i].file = MarketplaceFile].content
    /\ items' = <<>>
    /\ mpc' = "read"
    /\ UNCHANGED <<modesDir, syncVars, addVars, resyncVars>>

ManifestNext ==
    \/ ReadAndSort
    \/ OpenManifest
    \/ WriteManifest
    \/ ManifestKill
    \/ RunAgain

ManifestSpec == ManifestInit /\ [][ManifestNext]_vars

\* -------------------------------------------------------- manifest: claims
\* The content of marketplace.yaml in modes/, <<>> when there is none.
Marketplace ==
    IF \E i \in 1..Len(modesDir) : modesDir[i].file = MarketplaceFile
    THEN modesDir[CHOOSE i \in 1..Len(modesDir) : modesDir[i].file = MarketplaceFile].content
    ELSE <<>>

\* C9: the run never completes with a document in which two entries share
\* an id.
C9_DuplicateIdFails ==
    mpc = "done" =>
        \A i, j \in 1..Len(Marketplace) :
            (i # j /\ Marketplace[i].hasId /\ Marketplace[j].hasId)
                => Marketplace[i].id # Marketplace[j].id

\* C10 as stated: the entries written are in lexicographic order of their
\* ids, compared code unit by code unit.
C10_Original ==
    mpc = "done" =>
        \A i \in 1..(Len(Marketplace) - 1) :
            compareSeq(idText(Marketplace[i]), idText(Marketplace[i + 1])) <= 0

\* C10, amended: the entries written are the modes read, each once, in the
\* order of localeCompare on their ids, whatever the enumeration order; this
\* is the code-unit lexicographic order only among ids of a single case.
C10_SortedByLocaleCompare ==
    mpc = "done" =>
        /\ \A i \in 1..(Len(Marketplace) - 1) :
             localeCompare(idText(Marketplace[i]), idText(Marketplace[i + 1])) <= 0
        /\ Len(Marketplace) = NumModes
        /\ \A k \in 1..NumModes : \E i \in 1..Len(Marketplace) :
             Marketplace[i] = modesDir[CHOOSE j \in 1..Len(modesDir) :
                                          modesDir[j].file = ModeFile(k)].content[1]

\* A document was written whose entries are not in enumeration order.
C10_Witness ==
    /\ mpc = "done"
    /\ \E i \in 1..(Len(Marketplace) - 1) :
         Marketplace[i].name > Marketplace[i + 1].name

\* The mode files of the directory that hold a mapping with an id.
ValidModes ==
    {k \in 1..NumModes :
        \E i \in 1..Len(modesDir) :
            /\ modesDir[i].file = ModeFile(k)
            /\ modesDir[i].parses
            /\ modesDir[i].content[1].hasId}

\* C11: a second run on the directory the first run left, its mode files
\* unchanged, writes the document the first run wrote, and none of its items
\* was read from marketplace.yaml.
C11_SecondRunSameDocument ==
    (run = 2 /\ mpc = "done") =>
        /\ Marketplace = prevDoc
        /\ \A i \in 1..Len(items) : items[i].name \in 1..NumModes

\* A second run has ended, and the document the first run left had entries.
C11_Witness ==
    /\ run = 2
    /\ mpc = "done"
    /\ Len(prevDoc) = NumModes

\* C12: when the process is killed, marketplace.yaml is a whole document, the
\* one before the run or the one of the run, never a part of one.
C12_AtomicReplace ==
    mpc = "killed" =>
        \A i \in 1..Len(modesDir) :
            modesDir[i].file = MarketplaceFile => modesDir[i].whole

\* C18: no input ends the run without a document, and the document written
\* has the entries of the valid mode files and no others.
C18_InvalidInputSkipped ==
    /\ mpc # "crashed"
    /\ mpc = "done" => {Marketplace[i].name : i \in 1..Len(Marketplace)} = ValidModes

\* ------------------------------------------------------------ groupByRepo
\* Longest sequence of skills groupByRepo is applied to.
MaxGroupInput == 3

\* The sequences collectSkills may hand to groupByRepo: the skills have
\* distinct names, in enumeration order, and any repository and path.
GroupInputs ==
    UNION {
        {[i \in 1..n |->
            [name |-> i,
             source |-> src[i],
             frontmatter |-> [meta |-> TRUE, category |-> Absent, source |-> src[i]]]] :
         src \in [1..n -> [repository : Repos, path : Names]]} :
        n \in 1..MaxGroupInput}

GroupInit ==
    /\ skills \in GroupInputs
    /\ grouped = <<>>
    /\ pc = "group"
    /\ dirs = [n \in Names |-> NoDir]
    /\ filter = {}
    /\ gi = 0
    /\ si = 0
    /\ cur = NoCur
    /\ tempDirs = {}
    /\ thrown = "none"
    /\ warnLog = {}
    /\ okLog = {}
    /\ errLog = {}
    /\ summary = -1
    /\ exitCode = -1
    /\ modesDir = <<>>
    /\ items = <<>>
    /\ mpc = "idle"
    /\ run = 0
    /\ prevDoc = <<>>
    /\ url = NoUrl
    /\ parsed = NoParse
    /\ targetDir = NoLocalDir
    /\ tempDir = FALSE
    /\ addThrown = "none"
    /\ addExit = -1
    /\ apc = "idle"
    /\ pass = 1
    /\ seen = <<>>
    /\ dirs1 = <<>>
    /\ skills1 = <<>>

\* main, line 351: const grouped = groupByRepo(skills).
GroupSkills ==
    /\ pc = "group"
    /\ grouped' = groupByRepo(skills)
    /\ pc' = "grouped"
    /\ UNCHANGED <<dirs, filter, skills, gi, si, cur, tempDirs, thrown, warnLog,
                   okLog, errLog, summary, exitCode, manifestVars, addVars, resyncVars>>

GroupNext == GroupSkills

GroupSpec == GroupInit /\ [][GroupNext]_vars

\* The position in skills of the first skill of repository r.
FirstOf(r) ==
    CHOOSE i \in 1..Len(skills) :
        /\ skills[i].source.repository = r
        /\ \A j \in 1..(i - 1) : skills[j].source.repository # r

\* C13: groupByRepo partitions its input: every skill is a member of one
\* group, at one position, and that group is keyed by the skill's
\* source.repository; the groups hold nothing else; no two groups have the
\* same repository; the groups are in the order in which their repositories
\* first occur in the input, and the members of a group are in input order.
C13_GroupsPartition ==
    pc = "grouped" =>
        /\ \A i \in 1..Len(skills) :
             /\ Cardinality({<<g, j>> \in (1..Len(grouped)) \X (1..Len(skills)) :
                    /\ j <= Len(grouped[g].members)
                    /\ grouped[g].members[j] = skills[i]}) = 1
             /\ \A g \in 1..Len(grouped) :
                  (\E j \in 1..Len(grouped[g].members) : grouped[g].members[j] = skills[i])
                      => grouped[g].repo = skills[i].source.repository
        /\ \A g \in 1..Len(grouped) :
             /\ grouped[g].members # <<>>
             /\ \A j \in 1..Len(grouped[g].members) :
                  \E i \in 1..Len(skills) : grouped[g].members[j] = skills[i]
             /\ \A j \in 1..(Len(grouped[g].members) - 1) :
                  grouped[g].members[j].name < grouped[g].members[j + 1].name
        /\ \A g, h \in 1..Len(grouped) :
             /\ g # h => grouped[g].repo # grouped[h].repo
             /\ g < h => FirstOf(grouped[g].repo) < FirstOf(grouped[h].repo)

\* Three skills were grouped, the second of another repository than the
\* first and the third: two groups, the first with the first and third skill.
C13_Witness ==
    /\ pc = "grouped"
    /\ Len(grouped) = 2
    /\ Len(grouped[1].members) = 2
    /\ grouped[1].members[2].name = 3
    /\ grouped[2].members[1].name = 2

\* -------------------------------------------------------- add-remote-skill
\* Most path segments of a URL after the host.
MaxSegs == 6

\* What a URL is made of: a host and path segments, each one symbol of the
\* text, and "/" between them. "tree" and "blob" are the segments the
\* patterns name; the other two stand for any other segment.
Hosts == {"github.com", "gitlab.com"}
Segments == {"tree", "blob", "skills", "SKILL.md"}

Urls ==
    [host : Hosts,
     segs : UNION {[1..n -> Segments] : n \in 0..MaxSegs},
     slash : BOOLEAN]

\* The segments joined by "/".
RECURSIVE joinPath(_)
joinPath(segs) ==
    IF segs = <<>> THEN <<>>
    ELSE IF Len(segs) = 1 THEN <<segs[1]>>
    ELSE <<segs[1], "/">> \o joinPath(Tail(segs))

\* The text of a URL, as the sequence of its symbols.
urlText(u) ==
    <<"https:", "/", "/", u.host>>
    \o (IF u.segs = <<>> THEN <<>> ELSE <<"/">> \o joinPath(u.segs))
    \o (IF u.slash THEN <<"/">> ELSE <<>>)

\* The position of the first "/" of t at or after i, Len(t) + 1 without one:
\* where a run [^\/]+ that starts at i has to end.
slashFrom(t, i) ==
    IF \E k \in i..Len(t) : t[k] = "/"
    THEN CHOOSE k \in i..Len(t) : t[k] = "/" /\ \A j \in i..(k - 1) : t[j] # "/"
    ELSE Len(t) + 1

\* Lines 400-401 and 408-409, the pattern
\*   github\.com\/([^\/]+)\/([^\/]+)\/KIND\/[^\/]+\/(.+?)(?:\/)?$
\* tried with "github.com" at position i of t. The three runs [^\/]+ end at
\* the next "/"; the lazy (.+?) takes the rest of the text, without its last
\* "/" when it has one and something before it.
matchAt(t, i, kind) ==
    LET ownerEnd == slashFrom(t, i + 2)
        repoEnd == slashFrom(t, ownerEnd + 1)
        branchEnd == slashFrom(t, repoEnd + 3)
        rest == SubSeq(t, branchEnd + 1, Len(t))
        matches ==
            /\ i + 1 <= Len(t) /\ t[i] = "github.com" /\ t[i + 1] = "/"
            /\ ownerEnd > i + 2 /\ ownerEnd <= Len(t)
            /\ repoEnd > ownerEnd + 1 /\ repoEnd + 2 <= Len(t)
            /\ t[repoEnd + 1] = kind /\ t[repoEnd + 2] = "/"
            /\ branchEnd > repoEnd + 3 /\ branchEnd < Len(t)
    IN IF ~matches THEN [ok |-> FALSE, capture |-> <<>>]
       ELSE [ok |-> TRUE,
             capture |-> IF Len(rest) >= 2 /\ rest[Len(rest)] = "/"
                         THEN SubSeq(rest, 1, Len(rest) - 1)
                         ELSE rest]

\* url.match(pattern), lines 402 and 410: the leftmost match.
match(t, kind) ==
    IF \E i \in 1..Len(t) : matchAt(t, i, kind).ok
    THEN matchAt(t, CHOOSE i \in 1..Len(t) :
                        /\ matchAt(t, i, kind).ok
                        /\ \A j \in 1..(i - 1) : ~matchAt(t, j, kind).ok,
                 kind)
    ELSE [ok |-> FALSE, capture |-> <<>>]

\* Line 414, path.dirname of a relative path that does not end with "/": the text
\* before the last "/", and "." when there is none.
dirname(p) ==
    IF \E k \in 1..Len(p) : p[k] = "/"
    THEN SubSeq(p, 1, (CHOOSE k \in 1..Len(p) :
                          p[k] = "/" /\ \A j \in (k + 1)..Len(p) : p[j] # "/") - 1)
    ELSE <<".">>

\* parseGitHubUrl without path.dirname for a blob URL.
parseGitHubUrl_noDirname(t) ==
    IF match(t, "tree").ok
    THEN [done |-> TRUE, ok |-> TRUE, skillPath |-> match(t, "tree").capture]
    ELSE IF match(t, "blob").ok
    THEN [done |-> TRUE, ok |-> TRUE, skillPath |-> match(t, "blob").capture]
    ELSE [done |-> TRUE, ok |-> FALSE, skillPath |-> <<>>]
\* parseGitHubUrl, lines 394-421; ok FALSE is the Error thrown at line 418.
parseGitHubUrl(t) ==
    IF match(t, "tree").ok
    THEN [done |-> TRUE, ok |-> TRUE, skillPath |-> match(t, "tree").capture]
    ELSE IF match(t, "blob").ok
    THEN [done |-> TRUE, ok |-> TRUE, skillPath |-> dirname(match(t, "blob").capture)]
    ELSE [done |-> TRUE, ok |-> FALSE, skillPath |-> <<>>]

UrlInit ==
    /\ url \in Urls
    /\ parsed = NoParse
    /\ targetDir = NoLocalDir
    /\ tempDir = FALSE
    /\ addThrown = "none"
    /\ addExit = -1
    /\ apc = "idle"
    /\ dirs = [n \in Names |-> NoDir]
    /\ filter = {}
    /\ skills = <<>>
    /\ grouped = <<>>
    /\ gi = 0
    /\ si = 0
    /\ cur = NoCur
    /\ tempDirs = {}
    /\ thrown = "none"
    /\ warnLog = {}
    /\ okLog = {}
    /\ errLog = {}
    /\ summary = -1
    /\ exitCode = -1
    /\ pc = "idle"
    /\ modesDir = <<>>
    /\ items = <<>>
    /\ mpc = "idle"
    /\ run = 0
    /\ prevDoc = <<>>
    /\ pass = 1
    /\ seen = <<>>
    /\ dirs1 = <<>>
    /\ skills1 = <<>>

\* main of add-remote-skill, lines 444-446: parseGitHubUrl(fullUrl).
ParseUrl ==
    /\ ~parsed.done
    /\ parsed' = parseGitHubUrl(urlText(url))
    /\ UNCHANGED <<url, targetDir, tempDir, addThrown, addExit, apc,
                   syncVars, manifestVars, resyncVars>>

UrlNext == ParseUrl

UrlSpec == UrlInit /\ [][UrlNext]_vars

\* The URL is https://github.com/<owner>/<repo>/KIND/<branch>/<path>.
HasForm(kind) ==
    /\ url.host = "github.com"
    /\ Len(url.segs) >= 5
    /\ url.segs[3] = kind

\* C14: parseGitHubUrl gives <path> for a tree URL, with or without a slash
\* at its end; for a blob URL it gives the directory of the file <path>
\* names; and it rejects every URL whose third segment after the host is
\* neither tree nor blob.
C14_ParseGitHubUrl ==
    parsed.done =>
        /\ HasForm("tree") =>
             /\ parsed.ok
             /\ parsed.skillPath = joinPath(SubSeq(url.segs, 5, Len(url.segs)))
        /\ HasForm("blob") =>
             /\ parsed.ok
             /\ parsed.skillPath =
                  IF Len(url.segs) = 5 THEN <<".">>
                  ELSE joinPath(SubSeq(url.segs, 5, Len(url.segs) - 1))
        /\ (Len(url.segs) < 3 \/ url.segs[3] \notin {"tree", "blob"}) => ~parsed.ok

\* A tree URL that ends with a slash, and whose path has a segment named
\* blob, was parsed to its path of two segments.
C14_Witness ==
    /\ parsed.done
    /\ HasForm("tree")
    /\ url.slash
    /\ parsed.skillPath = <<"skills", "/", "blob">>

\* ------------------------------------------------- update-skills, run twice
\* The registries a first run starts from. Repository names are
\* interchangeable, and the run handles each group as it handles two: the
\* first skill, when it is a mirror, mirrors repository 1, and the others
\* repository 1 or 2.
ResyncDirs(n) ==
    {d \in LocalDirs(n) :
        d.md.fm.source.repository \in 0..(IF n = 1 THEN 1 ELSE 2)}

\* The command lines of the two runs: no argument, or the first skill.
ResyncFilters == {{}, {1}}

\* What upstream has at a path in a run that ends with exit code 0: nothing,
\* or a directory with a well-formed SKILL.md.
ResyncUpstream == {d \in UpstreamDirs : ~d.exists \/ (d.md.exists /\ d.md.ok)}

ResyncInit ==
    /\ dirs \in [Names -> UNION {ResyncDirs(n) : n \in Names}]
    /\ \A n \in Names : dirs[n] \in ResyncDirs(n)
    /\ filter \in ResyncFilters
    /\ skills = <<>>
    /\ grouped = <<>>
    /\ gi = 0
    /\ si = 0
    /\ cur = NoCur
    /\ tempDirs = {}
    /\ thrown = "none"
    /\ warnLog = {}
    /\ okLog = {}
    /\ errLog = {}
    /\ summary = -1
    /\ exitCode = -1
    /\ pc = "main"
    /\ modesDir = <<>>
    /\ items = <<>>
    /\ mpc = "idle"
    /\ run = 0
    /\ prevDoc = <<>>
    /\ url = NoUrl
    /\ parsed = NoParse
    /\ targetDir = NoLocalDir
    /\ tempDir = FALSE
    /\ addThrown = "none"
    /\ addExit = -1
    /\ apc = "idle"
    /\ pass = 1
    /\ seen = [n \in Names |-> NoDir]
    /\ dirs1 = <<>>
    /\ skills1 = <<>>

\* One iteration of the loop in the first run: what upstream has at the path
\* is met for the first time.
UpdateSkillFirst ==
    /\ pass = 1
    /\ pc = "skills"
    /\ si <= Len(grouped[gi].members)
    /\ \E sourceDir \in ResyncUpstream :
         /\ updateSkillFrom(sourceDir)
         /\ seen' = [seen EXCEPT ![grouped[gi].members[si].name] = sourceDir]
    /\ UNCHANGED <<pass, dirs1, skills1>>

\* One iteration of the loop in the second run: upstream has not changed.
UpdateSkillAgain ==
    /\ pass = 2
    /\ pc = "skills"
    /\ si <= Len(grouped[gi].members)
    /\ updateSkillFrom(seen[grouped[gi].members[si].name])
    /\ UNCHANGED resyncVars

\* update-skills is started again, with the same arguments, after a run that
\* ended with exit code 0.
SyncAgain ==
    /\ pass = 1
    /\ pc = "exit"
    /\ exitCode = 0
    /\ pass' = 2
    /\ dirs1' = dirs
    /\ skills1' = skills
    /\ skills' = <<>>
    /\ grouped' = <<>>
    /\ gi' = 0
    /\ si' = 0
    /\ cur' = NoCur
    /\ warnLog' = {}
    /\ okLog' = {}
    /\ errLog' = {}
    /\ summary' = -1
    /\ exitCode' = -1
    /\ pc' = "main"
    /\ UNCHANGED <<dirs, filter, tempDirs, thrown, seen, manifestVars, addVars>>

ResyncNext ==
    \/ Collect
    \/ Done
    \/ Mkdtemp
    \/ GitFetch
    \/ UpdateSkillFirst
    \/ UpdateSkillAgain
    \/ EndSkills
    \/ Finally
    \/ SyncAgain

ResyncSpec == ResyncInit /\ [][ResyncNext]_vars

\* C24: a second run with the same arguments, on the registry a successful
\* first run left and against the same upstream content, ends with every
\* skill directory as the first run left it, and its scan selects the skills
\* the first scan selected.
C24_SecondSyncSame ==
    (pass = 2 /\ pc = "exit") =>
        /\ thrown = "none"
        /\ dirs = dirs1
        /\ Selected = {skills1[i].name : i \in 1..Len(skills1)}
        /\ \A i \in 1..Len(skills) : skills[i].source = skills1[i].source

\* A second run ended after it reconciled a skill whose category "tools" was
\* carried forward over an upstream document without category and whose
\* upstream declares a source of its own.
C24_Witness ==
    /\ pass = 2
    /\ pc = "exit"
    /\ \E n \in okLog :
         /\ seen[n].md.fm.category = Absent
         /\ seen[n].md.fm.source = Bogus
         /\ dirs[n].md.fm.category = "tools"

\* ------------------------------------------------- add-remote-skill: main
\* getSkillName, lines 423-426: path.basename(skillPath).
getSkillName(skillPath) ==
    IF skillPath = <<>> THEN "" ELSE skillPath[Len(skillPath)]

\* Line 454, fs.existsSync(targetDir): the name "." gives skillsDir itself.
targetExists == targetDir.exists \/ getSkillName(parsed.skillPath) = "."

\* Lines 507-522: the frontmatter written to the copied SKILL.md; the
\* repository is made of the owner and the repo of the URL.
addMetadata(fm) ==
    [meta |-> TRUE,
     category |-> IF ~Truthy(fm.category) THEN "unknown" ELSE fm.category,
     source |-> [repository |-> <<url.segs[1], url.segs[2]>>,
                 path |-> parsed.skillPath]]

\* What skillsDir may hold at targetDir before the run: nothing, or a skill.
TargetDirs ==
    {NoLocalDir,
     [exists |-> TRUE, hidden |-> FALSE,
      md |-> [exists |-> TRUE, ok |-> TRUE,
              fm |-> [meta |-> TRUE, category |-> "tools", source |-> NoSource],
              body |-> "local"],
      others |-> LocalOthers]}

AddInit ==
    /\ url \in Urls
    /\ parsed = NoParse
    /\ targetDir \in TargetDirs
    /\ tempDir = FALSE
    /\ addThrown = "none"
    /\ addExit = -1
    /\ apc = "parse"
    /\ dirs = [n \in Names |-> NoDir]
    /\ filter = {}
    /\ skills = <<>>
    /\ grouped = <<>>
    /\ gi = 0
    /\ si = 0
    /\ cur = NoCur
    /\ tempDirs = {}
    /\ thrown = "none"
    /\ warnLog = {}
    /\ okLog = {}
    /\ errLog = {}
    /\ summary = -1
    /\ exitCode = -1
    /\ pc = "idle"
    /\ modesDir = <<>>
    /\ items = <<>>
    /\ mpc = "idle"
    /\ run = 0
    /\ prevDoc = <<>>
    /\ pass = 1
    /\ seen = <<>>
    /\ dirs1 = <<>>
    /\ skills1 = <<>>

\* Line 418 and lines 538-541: parseGitHubUrl threw; main().catch exits.
AddReject ==
    /\ apc = "parse"
    /\ parsed.done
    /\ ~parsed.ok
    /\ addThrown' = "url"
    /\ addExit' = 1
    /\ apc' = "exit"
    /\ UNCHANGED <<url, parsed, targetDir, tempDir, syncVars, manifestVars, resyncVars>>

\* Lines 447-458: the run ends when targetDir exists.
AddCheckTarget ==
    /\ apc = "parse"
    /\ parsed.done
    /\ parsed.ok
    /\ IF targetExists
       THEN addExit' = 1 /\ apc' = "exit"
       ELSE addExit' = addExit /\ apc' = "mkdtemp"
    /\ UNCHANGED <<url, parsed, targetDir, tempDir, addThrown, syncVars, manifestVars,
                   resyncVars>>

\* Line 461: the workspace is created.
AddMkdtemp ==
    /\ apc = "mkdtemp"
    /\ tempDir' = TRUE
    /\ apc' = "fetch"
    /\ UNCHANGED <<url, parsed, targetDir, addThrown, addExit, syncVars, manifestVars,
                   resyncVars>>

\* Lines 467-485: execSync throws at one of the git steps.
AddGitFail ==
    /\ apc = "fetch"
    /\ \E step \in GitSteps : addThrown' = "git"
    /\ apc' = "finally"
    /\ UNCHANGED <<url, parsed, targetDir, tempDir, addExit, syncVars, manifestVars,
                   resyncVars>>

\* Lines 467-485: every git step succeeded.
AddGitFetch ==
    /\ apc = "fetch"
    /\ apc' = "copy"
    /\ UNCHANGED <<url, parsed, targetDir, tempDir, addThrown, addExit, syncVars,
                   manifestVars, resyncVars>>

\* Lines 487-531, on the directory found at skillPath: the directory is
\* copied to targetDir before SKILL.md is looked for, read and written.
AddCopy ==
    /\ apc = "copy"
    /\ \E sourceDir \in UpstreamDirs :
         LET copied == cpSync(sourceDir, targetDir)
         IN IF ~sourceDir.exists
            THEN \* line 490
                 addThrown' = "not found" /\ targetDir' = targetDir
            ELSE IF ~copied.md.exists
            THEN \* line 500
                 addThrown' = "no SKILL.md" /\ targetDir' = copied
            ELSE IF ~copied.md.ok
            THEN \* line 505: matter() throws
                 addThrown' = "parse" /\ targetDir' = copied
            ELSE \/ /\ addThrown' = addThrown
                    /\ targetDir' = [copied EXCEPT !.md.fm = addMetadata(copied.md.fm)]
                 \/ \* line 528: writeFileSync throws
                    addThrown' = "write" /\ targetDir' = copied
    /\ apc' = "finally"
    /\ UNCHANGED <<url, parsed, tempDir, addExit, syncVars, manifestVars, resyncVars>>

\* Lines 532-535, and main().catch of lines 538-541.
AddFinally ==
    /\ apc = "finally"
    /\ tempDir' = FALSE
    /\ addExit' = IF addThrown # "none" THEN 1 ELSE 0
    /\ apc' = "exit"
    /\ UNCHANGED <<url, parsed, targetDir, addThrown, syncVars, manifestVars, resyncVars>>

AddNext ==
    \/ ParseUrl
    \/ AddReject
    \/ AddCheckTarget
    \/ AddMkdtemp
    \/ AddGitFail
    \/ AddGitFetch
    \/ AddCopy
    \/ AddFinally

AddSpec == AddInit /\ [][AddNext]_vars

\* C25: when add-remote-skill ends by a failure after the URL was parsed (a
\* git step, no directory at the path, no SKILL.md in the copy, a failure
\* to parse or to write the metadata), skillsDir has no directory at
\* targetDir and the workspace is gone.
C25_FailedAddLeavesNothing ==
    (apc = "exit" /\ addThrown \in {"git", "not found", "no SKILL.md", "parse", "write"}) =>
        /\ ~targetDir.exists
        /\ ~tempDir
====
